---- MODULE Spec2Model ----
(***************************************************************************)
(* The document fetch-and-render pipeline of src/src/App.js.               *)
(*                                                                         *)
(* App.js holds three variants of the App component (lines 1-85, 87-159    *)
(* and 161-234).  All three call useSWR(docPath, docFetcher) with SWR's    *)
(* default options and render the fetched text through ReactMarkdown with  *)
(* the same `code` component; the first two enable the remarkSlug and      *)
(* remarkToc plugins, the third enables no plugin.                         *)
(*                                                                         *)
(* Text is modelled as a sequence of one-character strings, so that the    *)
(* string operations of the pipeline (lower-casing, the language-(\w+)     *)
(* regular expression, slug suffixes) are computed and not assumed.  A     *)
(* document is the sequence of the block nodes its Markdown text parses    *)
(* to; the empty string is the empty sequence.                             *)
(***************************************************************************)
EXTENDS Integers, Sequences, FiniteSets, TLC

VARIABLES
    variant,     \* which App variant of App.js is mounted (1, 2 or 3)
    body,        \* the document the server holds at docPath
    broken,      \* languages whose grammar makes the highlighter throw
    data,        \* useSWR's `data`: [defined, value]
    error,       \* useSWR's `error`: ErrUndefined or an error value
    request,     \* "idle" or "inflight": the promise docFetcher returned
    calls,       \* the calls of docFetcher so far, each with what triggered it
    lastOutcome, \* how the most recent retrieval ended: [kind, status]
    view,        \* what the last render pass of App returned
    log          \* the errors written by console.error

vars == <<variant, body, broken, data, error, request, calls, lastOutcome, view, log>>

----------------------------------------------------------------------------
(* Bounds *)

\* docFetcher calls explored per session
MaxFetches == 3
\* headings per document in SpecHeadings
MaxHeadings == 3
\* blocks per document in SpecCode
MaxBlocks == 2

----------------------------------------------------------------------------
(* Text *)

LowerLetters ==
    {"a","b","c","d","e","f","g","h","i","j","k","l","m",
     "n","o","p","q","r","s","t","u","v","w","x","y","z"}
UpperLetters == {"I", "T", "O", "C"}
Digits == {"0","1","2","3","4","5","6","7","8","9"}

\* \w of a JavaScript regular expression
WordChars == LowerLetters \cup UpperLetters \cup Digits \cup {"_"}

\* String.prototype.toLowerCase, one character
LowerChar(c) ==
    CASE c = "I" -> "i"
      [] c = "T" -> "t"
      [] c = "O" -> "o"
      [] c = "C" -> "c"
      [] OTHER -> c

ToLowerCase(s) == [i \in 1..Len(s) |-> LowerChar(s[i])]

DigitChar(d) == <<"0","1","2","3","4","5","6","7","8","9">>[d + 1]

\* Number to decimal string, as '-' + n concatenates it
RECURSIVE NumberToString(_)
NumberToString(n) ==
    IF n < 10 THEN <<DigitChar(n)>>
    ELSE NumberToString(n \div 10) \o <<DigitChar(n % 10)>>

\* s.replace(/[drop]/g, '')
RECURSIVE Remove(_, _)
Remove(s, drop) ==
    IF s = <<>> THEN <<>>
    ELSE IF Head(s) \in drop THEN Remove(Tail(s), drop)
    ELSE <<Head(s)>> \o Remove(Tail(s), drop)

Min(S) == CHOOSE x \in S : \A y \in S : x <= y
Max(S) == CHOOSE x \in S : \A y \in S : x >= y

\* the texts used
Intro == <<"I","n","t","r","o">>
IntroBang == <<"I","n","t","r","o","!">>
IntroDash1 == <<"i","n","t","r","o","-","1">>
TableOfContents ==
    <<"T","a","b","l","e"," ","o","f"," ","c","o","n","t","e","n","t","s">>
Javascript == <<"j","a","v","a","s","c","r","i","p","t">>
UnknownLang == <<"u","n","k","n","o","w","n","l","a","n","g","1","2","3">>
CPlusPlus == <<"c","+","+">>
PlusOnly == <<"+">>
CodeText == <<"x","\n">>
ParagraphText == <<"x">>
ErrorPageText == <<"5","0","0">>

----------------------------------------------------------------------------
(* Document nodes: what the Markdown text handed to ReactMarkdown parses to *)

Heading(depth, value) ==
    [type |-> "heading", depth |-> depth, value |-> value,
     lang |-> <<>>, inline |-> FALSE, hasId |-> FALSE, id |-> <<>>]

\* a fenced block; lang = <<>> is a fence with no language tag
CodeBlock(lang, value) ==
    [type |-> "code", depth |-> 0, value |-> value,
     lang |-> lang, inline |-> FALSE, hasId |-> FALSE, id |-> <<>>]

\* `code` inside a paragraph: Markdown gives it no language tag
InlineCode(value) ==
    [type |-> "code", depth |-> 0, value |-> value,
     lang |-> <<>>, inline |-> TRUE, hasId |-> FALSE, id |-> <<>>]

Paragraph(value) ==
    [type |-> "paragraph", depth |-> 0, value |-> value,
     lang |-> <<>>, inline |-> FALSE, hasId |-> FALSE, id |-> <<>>]

----------------------------------------------------------------------------
(* remarkSlug: ids on headings, made unique by github-slugger *)

\* the characters of the model's texts that the slugger's regex removes
Punctuation == {"!", "+", "\n"}

\* slug(value): lower-case, drop punctuation, spaces to hyphens
Slug(value) ==
    LET lower == ToLowerCase(value)
        kept  == Remove(lower, Punctuation)
    IN  [i \in 1..Len(kept) |-> IF kept[i] = " " THEN "-" ELSE kept[i]]

\* the while loop of Slugger.slug: count up until the slug is unused
RECURSIVE SluggerLoop(_, _, _)
SluggerLoop(occurrences, originalSlug, result) ==
    IF result \in DOMAIN occurrences
    THEN LET occ == [occurrences EXCEPT ![originalSlug] = @ + 1]
         IN  SluggerLoop(occ, originalSlug,
                         originalSlug \o <<"-">> \o NumberToString(occ[originalSlug]))
    ELSE [slug |-> result, occurrences |-> occurrences @@ (result :> 0)]

\* a slugger that never resolves a collision
SluggerSlugNoSuffix(occurrences, value) ==
    [slug |-> Slug(value), occurrences |-> occurrences @@ (Slug(value) :> 0)]

\* Slugger.slug(value) with the occurrences seen so far
SluggerSlug(occurrences, value) ==
    SluggerLoop(occurrences, Slug(value), Slug(value))

\* the slugger's occurrences after reset()
NoOccurrences == [s \in {} |-> 0]

RECURSIVE RemarkSlugFrom(_, _)
RemarkSlugFrom(nodes, occurrences) ==
    IF nodes = <<>> THEN <<>>
    ELSE LET n == Head(nodes) IN
         IF n.type = "heading"
         THEN LET r == SluggerSlug(occurrences, n.value) IN
              <<[n EXCEPT !.hasId = TRUE, !.id = r.slug]>>
                  \o RemarkSlugFrom(Tail(nodes), r.occurrences)
         ELSE <<n>> \o RemarkSlugFrom(Tail(nodes), occurrences)

remarkSlug(tree) == RemarkSlugFrom(tree, NoOccurrences)

----------------------------------------------------------------------------
(* remarkToc: the list generated under the table-of-contents heading *)

Table == <<"t","a","b","l","e">>
Of == <<"o","f">>
Content == <<"c","o","n","t","e","n","t">>

\* the strings /^(toc|table[ -]of[ -]contents?)$/i matches, lower-cased
TocHeadings ==
    {<<"t","o","c">>} \cup
    {Table \o <<s1>> \o Of \o <<s2>> \o Content \o tail :
        s1 \in {" ", "-"}, s2 \in {" ", "-"}, tail \in {<<>>, <<"s">>}}

IsTocHeading(value) == ToLowerCase(value) \in TocHeadings

\* maxDepth, left at the plugin's default
MaxDepth == 6

SearchStart ==
    [index |-> 0, openingDepth |-> 0, endIndex |-> 0, map |-> <<>>,
     occurrences |-> NoOccurrences]

\* onheading(node, position) of the search; position counts from 0, and an
\* index or endIndex of 0 is "not set" as in the JavaScript truth test
OnHeading(st, node, position) ==
    LET r  == SluggerSlug(st.occurrences,
                          IF node.hasId /\ node.id # <<>> THEN node.id ELSE node.value)
        s1 == [st EXCEPT !.occurrences = r.occurrences]
    IN  IF s1.index = 0 /\ IsTocHeading(node.value)
        THEN [s1 EXCEPT !.index = position + 1, !.openingDepth = node.depth]
        ELSE LET s2 == IF s1.index # 0 /\ s1.endIndex = 0
                          /\ node.depth <= s1.openingDepth
                       THEN [s1 EXCEPT !.endIndex = position]
                       ELSE s1
             IN  IF s2.endIndex # 0 /\ node.depth <= MaxDepth
                 THEN [s2 EXCEPT !.map = Append(@,
                          [depth |-> node.depth, value |-> node.value, id |-> r.slug])]
                 ELSE s2

RECURSIVE SearchFrom(_, _, _)
SearchFrom(tree, i, st) ==
    IF i > Len(tree) THEN st
    ELSE SearchFrom(tree, i + 1,
                    IF tree[i].type = "heading" THEN OnHeading(st, tree[i], i - 1) ELSE st)

Search(tree) == SearchFrom(tree, 1, SearchStart)

TocList(entries) ==
    [type |-> "list", depth |-> 0, value |-> <<>>, lang |-> <<>>,
     inline |-> FALSE, hasId |-> FALSE, id |-> <<>>, entries |-> entries]

\* a plugin that lists every heading of level 2 to 6 of the document
RemarkTocWholeDocument(tree) ==
    LET markers == {i \in 1..Len(tree) :
                       tree[i].type = "heading" /\ IsTocHeading(tree[i].value)}
        listed  == SelectSeq(tree, LAMBDA n :
                       /\ n.type = "heading"
                       /\ n.depth \in 2..MaxDepth
                       /\ ~IsTocHeading(n.value))
        entries == [i \in 1..Len(listed) |->
                       [depth |-> listed[i].depth, value |-> listed[i].value,
                        id |-> listed[i].id]]
    IN  IF markers = {} THEN tree
        ELSE SubSeq(tree, 1, Min(markers))
                \o <<TocList(entries)>>
                \o SubSeq(tree, Min(markers) + 1, Len(tree))

\* the plugin: no marker, or no heading to list, leaves the tree alone
remarkToc(tree) ==
    LET result == Search(tree) IN
    IF result.index = 0 \/ result.map = <<>> THEN tree
    ELSE SubSeq(tree, 1, result.index)
            \o <<TocList(result.map)>>
            \o SubSeq(tree, result.endIndex + 1, Len(tree))

----------------------------------------------------------------------------
(* markdownComponents.code *)

LanguagePrefix == <<"l","a","n","g","u","a","g","e","-">>

\* the class react-markdown gives a code element: language-<tag>, or none
ClassNameOf(node) ==
    IF node.lang = <<>> THEN <<>> ELSE LanguagePrefix \o node.lang

\* where /language-(\w+)/ can match in s
MatchStarts(s) ==
    {i \in 1..Len(s) :
        /\ i + Len(LanguagePrefix) <= Len(s)
        /\ SubSeq(s, i, i + Len(LanguagePrefix) - 1) = LanguagePrefix
        /\ s[i + Len(LanguagePrefix)] \in WordChars}

\* /language-(\w+)/.exec(s): the leftmost match, its group taken greedily
LanguageMatch(s) ==
    IF MatchStarts(s) = {} THEN [found |-> FALSE, group |-> <<>>]
    ELSE LET from == Min(MatchStarts(s)) + Len(LanguagePrefix)
             to   == Max({j \in from..Len(s) :
                            \A k \in from..j : s[k] \in WordChars})
         IN  [found |-> TRUE, group |-> SubSeq(s, from, to)]

\* String(children).replace(/\n$/, '')
StripFinalNewline(s) ==
    IF s # <<>> /\ s[Len(s)] = "\n" THEN SubSeq(s, 1, Len(s) - 1) ELSE s

\* the languages of the model that the Prism highlighter registers
Registered == {Javascript, <<"c">>}

\* <SyntaxHighlighter language children/>: token-coloured when the language
\* is registered, uncoloured otherwise; throws when the grammar is broken
SyntaxHighlighter(language, children, brokenGrammars) ==
    [widget |-> "SyntaxHighlighter", language |-> language, children |-> children,
     highlighted |-> language \in Registered,
     throws |-> language \in brokenGrammars]

PlainCode(className, children) ==
    [widget |-> "code", className |-> className, children |-> children,
     throws |-> FALSE]

\* a code component that asks the highlighter whether it knows the language
CodeByRecognition(inline, className, children, brokenGrammars) ==
    LET match == LanguageMatch(className) IN
    IF ~inline /\ match.found /\ match.group \in Registered
    THEN SyntaxHighlighter(match.group, StripFinalNewline(children), brokenGrammars)
    ELSE PlainCode(className, children)

\* code: ({ node, inline, className, children, ...props }) => ...
Code(inline, className, children, brokenGrammars) ==
    LET match == LanguageMatch(className) IN
    IF ~inline /\ match.found
    THEN SyntaxHighlighter(match.group, StripFinalNewline(children), brokenGrammars)
    ELSE PlainCode(className, children)

----------------------------------------------------------------------------
(* ReactMarkdown and App *)

\* remarkPlugins of the mounted variant: the third variant passes none
SlugEnabled(v) == v \in {1, 2}
TocEnabled(v) == v \in {1, 2}

Transform(v, tree) ==
    LET slugged == IF SlugEnabled(v) THEN remarkSlug(tree) ELSE tree
    IN  IF TocEnabled(v) THEN remarkToc(slugged) ELSE slugged

\* one node to one widget
Widget(node, brokenGrammars) ==
    CASE node.type = "heading" ->
            [widget |-> "h", level |-> node.depth, children |-> node.value,
             hasId |-> node.hasId, id |-> node.id, throws |-> FALSE]
      [] node.type = "list" ->
            [widget |-> "ul", entries |-> node.entries, throws |-> FALSE]
      [] node.type = "code" ->
            Code(node.inline, ClassNameOf(node), node.value, brokenGrammars)
      [] OTHER ->
            [widget |-> "p", children |-> node.value, throws |-> FALSE]

\* <ReactMarkdown remarkPlugins components>{doc}</ReactMarkdown>
ReactMarkdown(v, doc, brokenGrammars) ==
    LET tree == Transform(v, doc)
    IN  [i \in 1..Len(tree) |-> Widget(tree[i], brokenGrammars)]

Undefined == [defined |-> FALSE, value |-> <<>>]
Defined(value) == [defined |-> TRUE, value |-> value]
ErrUndefined == "undefined"

\* !doc: undefined and the empty string are both falsy
Falsy(d) == ~d.defined \/ d.value = <<>>

NoView == [kind |-> "none", doc |-> Undefined, err |-> ErrUndefined, tree |-> <<>>]

\* an App that never looks at error
AppIgnoresError(v, doc, err, brokenGrammars) ==
    IF Falsy(doc)
    THEN [kind |-> "loading", doc |-> doc, err |-> err, tree |-> <<>>]
    ELSE [kind |-> "document", doc |-> doc, err |-> err,
          tree |-> ReactMarkdown(v, doc.value, brokenGrammars)]

\* function App(): what one render pass returns for { data: doc, error }.
\* An exception thrown while the tree renders is caught by nothing, so
\* React unmounts the root.
App(v, doc, err, brokenGrammars) ==
    IF Falsy(doc)
    THEN [kind |-> "loading", doc |-> doc, err |-> err, tree |-> <<>>]
    ELSE IF err # ErrUndefined
    THEN [kind |-> "null", doc |-> doc, err |-> err, tree |-> <<>>]
    ELSE LET tree == ReactMarkdown(v, doc.value, brokenGrammars) IN
         IF \E i \in 1..Len(tree) : tree[i].throws
         THEN [kind |-> "unmounted", doc |-> doc, err |-> err, tree |-> <<>>]
         ELSE [kind |-> "document", doc |-> doc, err |-> err, tree |-> tree]

----------------------------------------------------------------------------
(* docFetcher and the network *)

\* the statuses the server answers with
Statuses == {200, 500}

IsSuccess(status) == status \in 200..299

\* the page a failing server sends in place of the document
ErrorPage == <<Paragraph(ErrorPageText)>>

\* the text body of the response
ResponseBody(status) == IF IsSuccess(status) THEN body ELSE ErrorPage

NetworkError == "TypeError: Failed to fetch"
DecodeError == "TypeError: Failed to decode body"

NoOutcome == [kind |-> "none", status |-> 0]

\* fetch(...).then(docPromise => docPromise.text()) once fetch has resolved
\* with a response of this status: fetch resolves whatever the status is,
\* nothing looks at the status, and the promise resolves with the body text
DocFetcher(status) == ResponseBody(status)

----------------------------------------------------------------------------
(* useSWR(docPath, docFetcher) with the default options, and React *)

Mounted == view.kind \notin {"none", "unmounted"}

\* the revalidations SWR starts by default after the one on mount
RevalidationTriggers == {"focus", "reconnect", "retry"}

\* revalidate(): call docFetcher unless a request for the key is in flight
Revalidate(trigger) ==
    /\ request = "idle"
    /\ Len(calls) < MaxFetches
    /\ request' = "inflight"
    /\ calls' = Append(calls, trigger)
    /\ UNCHANGED <<variant, body, broken, data, error, lastOutcome, view, log>>

\* the first render pass and the effect that starts the retrieval
Mount ==
    /\ view.kind = "none"
    /\ view' = App(variant, data, error, broken)
    /\ request' = "inflight"
    /\ calls' = Append(calls, "mount")
    /\ UNCHANGED <<variant, body, broken, data, error, lastOutcome, log>>

\* a render pass that fetches again when it has no data
RenderPassRefetches ==
    /\ Mounted
    /\ view' = App(variant, data, error, broken)
    /\ log' = IF view'.kind = "null" THEN log \cup {error} ELSE log
    /\ IF ~data.defined /\ request = "idle" /\ Len(calls) < MaxFetches
       THEN request' = "inflight" /\ calls' = Append(calls, "render")
       ELSE UNCHANGED <<request, calls>>
    /\ UNCHANGED <<variant, body, broken, data, error, lastOutcome>>

\* a render pass of App: useSWR returns the cached { data, error }
RenderPass ==
    /\ Mounted
    /\ view' = App(variant, data, error, broken)
    /\ log' = IF view'.kind = "null" THEN log \cup {error} ELSE log
    /\ UNCHANGED <<variant, body, broken, data, error, request, calls, lastOutcome>>

\* a failed retrieval that also drops the cached data
FetchRejectsDropsData ==
    /\ request = "inflight"
    /\ request' = "idle"
    /\ error' = NetworkError
    /\ data' = Undefined
    /\ lastOutcome' = [kind |-> "rejected", status |-> 0]
    /\ UNCHANGED <<variant, body, broken, calls, view, log>>

\* fetch() rejects (transport error): SWR sets error and keeps data
FetchRejects ==
    /\ request = "inflight"
    /\ request' = "idle"
    /\ error' = NetworkError
    /\ lastOutcome' = [kind |-> "rejected", status |-> 0]
    /\ UNCHANGED <<variant, body, broken, data, calls, view, log>>

\* fetch() resolves with a response and text() resolves: SWR sets data
\* and clears error
FetchResponds ==
    /\ request = "inflight"
    /\ \E status \in Statuses :
        /\ lastOutcome' = [kind |-> "response", status |-> status]
        /\ data' = Defined(DocFetcher(status))
        /\ error' = ErrUndefined
    /\ request' = "idle"
    /\ UNCHANGED <<variant, body, broken, calls, view, log>>

\* fetch() resolves and text() rejects (the body cannot be read or decoded)
TextRejects ==
    /\ request = "inflight"
    /\ \E status \in Statuses :
        lastOutcome' = [kind |-> "undecodable", status |-> status]
    /\ request' = "idle"
    /\ error' = DecodeError
    /\ UNCHANGED <<variant, body, broken, data, calls, view, log>>

\* revalidateOnFocus (default true)
Focus == Mounted /\ Revalidate("focus")

\* revalidateOnReconnect (default true)
Reconnect == Mounted /\ Revalidate("reconnect")

\* shouldRetryOnError (default true): a retry after the retrieval failed
ErrorRetry == Mounted /\ error # ErrUndefined /\ Revalidate("retry")

----------------------------------------------------------------------------
(* Specifications *)

Variants == {1, 2, 3}

\* the documents of the loader's specification: the empty text and a page
LoaderDocs == {<<>>, <<Heading(1, Intro), Paragraph(ParagraphText)>>}

HeadingLevels == {1, 2, 3}
HeadingTexts == {Intro, IntroBang, IntroDash1, TableOfContents}
HeadingNodes == {Heading(d, t) : d \in HeadingLevels, t \in HeadingTexts}
HeadingDocs == UNION {[1..n -> HeadingNodes] : n \in 1..MaxHeadings}

Tags == {<<>>, Javascript, UnknownLang, CPlusPlus, PlusOnly}
BlockNodes ==
    {Paragraph(ParagraphText), InlineCode(ParagraphText)}
        \cup {CodeBlock(l, CodeText) : l \in Tags}
BlockDocs == UNION {[1..n -> BlockNodes] : n \in 1..MaxBlocks}
BrokenChoices == {{}, {Javascript}, {UnknownLang}}

InitSession ==
    /\ variant \in Variants
    /\ data = Undefined
    /\ error = ErrUndefined
    /\ request = "idle"
    /\ calls = <<>>
    /\ lastOutcome = NoOutcome
    /\ view = NoView
    /\ log = {}

Init == InitSession /\ body \in LoaderDocs /\ broken = {}

Next ==
    \/ Mount
    \/ RenderPass
    \/ FetchRejects
    \/ FetchResponds
    \/ TextRejects
    \/ Focus
    \/ Reconnect
    \/ ErrorRetry

Spec == Init /\ [][Next]_vars

\* documents of headings, retrieved and rendered
InitHeadings == InitSession /\ body \in HeadingDocs /\ broken = {}

NextRender ==
    \/ Mount
    \/ FetchResponds
    \/ RenderPass

SpecHeadings == InitHeadings /\ [][NextRender]_vars

\* documents of code blocks, retrieved and rendered
InitCode == InitSession /\ body \in BlockDocs /\ broken \in BrokenChoices

SpecCode == InitCode /\ [][NextRender]_vars

----------------------------------------------------------------------------
(* Properties of the document loader (Spec) *)

\* the last render pass has seen the current { data, error }
Rendered == view.kind # "none" /\ view.doc = data /\ view.err = error

\* C1: once the retrieval has failed with no content loaded, a render pass
\* never returns the 'loading data...' placeholder.
C1_FailedNeverShowsLoading ==
    (~view.doc.defined /\ view.err # ErrUndefined) => view.kind # "loading"

\* C2: a response whose status is not 2xx yields the Failed state: the
\* error is set, and the body of such a response never reaches the renderer.
C2_NonSuccessYieldsFailed ==
    /\ (lastOutcome.kind = "response" /\ ~IsSuccess(lastOutcome.status))
          => error # ErrUndefined
    /\ view.kind = "document" => view.doc.value # ErrorPage

C5_RendererOnlyWhenLoaded ==
    /\ view.kind = "document" => (view.doc.defined /\ view.err = ErrUndefined)
    /\ (view.kind # "none" /\ (~view.doc.defined \/ view.err # ErrUndefined))
          => (view.kind \in {"loading", "null"} /\ view.tree = <<>>)

\* a render pass that saw content together with an error and returned null
C5_Witness ==
    /\ view.kind = "null"
    /\ view.doc.defined
    /\ view.doc.value # <<>>
    /\ view.err # ErrUndefined

\* C6: once the state is Loaded(content), the render pass that sees it
\* invokes the renderer on that content, whatever the content is.
C6_LoadedIsRendered ==
    (Rendered /\ data.defined /\ error = ErrUndefined)
        => (view.kind = "document" /\ view.doc = data)

----------------------------------------------------------------------------
(* Properties of the code widget (SpecCode) *)

\* the document of the last render pass, when it reached the renderer
Doc == view.doc.value

\* the longest prefix of s made of word characters
WordPrefix(s) ==
    SubSeq(s, 1, Max({0} \cup {j \in 1..Len(s) : \A k \in 1..j : s[k] \in WordChars}))

C8_ThrowStaysInBlock ==
    (view.kind # "none" /\ ~Falsy(view.doc) /\ view.err = ErrUndefined) =>
        /\ view.kind = "document"
        /\ Len(view.tree) = Len(Doc)
        /\ \A i \in 1..Len(Doc) :
            (Doc[i].type = "code" /\ WordPrefix(Doc[i].lang) \in broken)
                => view.tree[i].widget = "code"

----------------------------------------------------------------------------
(* Properties of heading ids and the table of contents (SpecHeadings) *)

HeadingWidgets == SelectSeq(view.tree, LAMBDA w : w.widget = "h")
TocWidgets == SelectSeq(view.tree, LAMBDA w : w.widget = "ul")

HasMarker(d) == \E i \in 1..Len(d) : d[i].type = "heading" /\ IsTocHeading(d[i].value)

Suffixed(base, n) == base \o <<"-">> \o NumberToString(n)

\* the id a heading is to get given the ids of the headings before it: its
\* slug, or when that is taken the slug with the least unused suffix >= from
ExpectedId(base, earlier, from) ==
    IF base \notin earlier THEN base
    ELSE Suffixed(base,
                  Min({n \in from..(from + Cardinality(earlier)) :
                          Suffixed(base, n) \notin earlier}))

\* the headings of the document, in order
DocHeadings == SelectSeq(Doc, LAMBDA n : n.type = "heading")

IdsOk(from) ==
    LET hs == HeadingWidgets IN
    /\ \A i \in 1..Len(hs) : hs[i].hasId
    /\ \A i, j \in 1..Len(hs) : i # j => hs[i].id # hs[j].id
    /\ ~HasMarker(Doc) =>
          /\ Len(hs) = Len(DocHeadings)
          /\ \A i \in 1..Len(hs) :
                hs[i].id = ExpectedId(Slug(DocHeadings[i].value),
                                      {hs[j].id : j \in 1..(i - 1)}, from)

TocEntries == IF TocWidgets = <<>> THEN <<>> ELSE TocWidgets[1].entries

Markers(d) == {i \in 1..Len(d) : d[i].type = "heading" /\ IsTocHeading(d[i].value)}

\* what a list entry says of heading k of the document
EntryOf(d, k) ==
    [depth |-> d[k].depth, value |-> d[k].value, id |-> remarkSlug(d)[k].id]

RECURSIVE Ascending(_)
Ascending(S) ==
    IF S = {} THEN <<>> ELSE <<Min(S)>> \o Ascending(S \ {Min(S)})

EntriesOf(d, positions) ==
    LET order == Ascending(positions)
    IN  [n \in 1..Len(order) |-> EntryOf(d, order[n])]

====
